---- MODULE Spec2Model ----
(***************************************************************************)
(* CustomCommandLoader (packages/cli/src/services/CustomCommandLoader.ts): *)
(* findGeminiDir walks up from the working directory looking for a         *)
(* `.gemini` directory; loadCommands lists `<.gemini>/commands`, reads and *)
(* parses every `*.toml` regular file and builds one SlashCommand per file *)
(* with a non-empty string `description`.                                  *)
(*                                                                         *)
(* A path is a sequence of components, a component (and a file name) is a  *)
(* sequence of characters; the filesystem root is the empty path.          *)
(***************************************************************************)
EXTENDS Naturals, Sequences, FiniteSets

VARIABLES
    \* the filesystem and the process environment (read-only for this module)
    cwd,            \* process.cwd()
    gem,            \* depth d |-> what `<ancestor d>/.gemini` is
    cmds,           \* depth d |-> what `<ancestor d>/.gemini/commands` is
    listing,        \* the entries of a listable commands directory, in readdir order
    \* the loader object and the call's arguments
    config,         \* this.config
    aborted,        \* _signal.aborted
    \* the locals of findGeminiDir and loadCommands
    pc, currentDir, root, geminiDir, commandsDir, dirents, idx, fullPath,
    promptCommands,
    returned,       \* the value the promise resolved to
    \* what the run did, as seen from outside
    diagnostics,    \* the console.error calls, in order
    statLog,        \* the paths given to fs.stat, in order
    readdirLog,     \* the paths given to fs.readdir, in order
    readLog,        \* begin/end of every fs.readFile + parse, in order
    \* a second run over the same filesystem, and calls of the returned commands
    run, prev, lastCall, prevCall

fsVars == <<cwd, gem, cmds, listing>>
locals == <<pc, currentDir, root, geminiDir, commandsDir, dirents, idx, fullPath,
            promptCommands, returned>>
logs == <<diagnostics, statLog, readdirLog, readLog>>
vars == <<fsVars, config, aborted, locals, logs, run, prev, lastCall, prevCall>>

------------------------------------------------------------------------------
\* Bounds

\* the deepest working directory: MaxDepth components below the root
MaxDepth == 3
\* the most entries a commands directory holds
MaxFiles == 2

------------------------------------------------------------------------------
\* Names and paths (node:path, POSIX)

GEMINI == <<".", "g", "e", "m", "i", "n", "i">>
COMMANDS == <<"c", "o", "m", "m", "a", "n", "d", "s">>
TOML == <<".", "t", "o", "m", "l">>

\* a value no path equals: a path never has an empty component
NullPath == << <<>> >>

DirChars == <<"a", "b", "c", "d", "e", "f">>
\* the working directory at depth n: /a/b/c...
Chain(n) == [i \in 1..n |-> <<DirChars[i]>>]

Join(dir, name) == Append(dir, name)

DirnameStuck(p) == p
Dirname(p) == IF Len(p) = 0 THEN p ELSE SubSeq(p, 1, Len(p) - 1)

ParseRoot(p) == SubSeq(p, 1, 0)

EndsWith(s, suffix) ==
    /\ Len(suffix) <= Len(s)
    /\ SubSeq(s, Len(s) - Len(suffix) + 1, Len(s)) = suffix

Basename(name, ext) ==
    IF Len(ext) > 0 /\ Len(ext) <= Len(name) /\ EndsWith(name, ext)
    THEN SubSeq(name, 1, Len(name) - Len(ext))
    ELSE name

------------------------------------------------------------------------------
\* The filesystem

GemKinds == {"absent", "denied", "file", "dir"}
CmdKinds == {"missing", "unreadable", "listable"}

\* fs.stat: "throws", or the kind of the entry
Stat(p) ==
    LET d == Len(p) - 1 IN
    IF /\ Len(p) >= 1
       /\ p[Len(p)] = GEMINI
       /\ d <= Len(cwd)
       /\ SubSeq(p, 1, d) = SubSeq(cwd, 1, d)
       /\ gem[d] \in {"file", "dir"}
    THEN gem[d]
    ELSE "throws"

IsDirectory(st) == st = "dir"

\* fs.readdir(p, {withFileTypes: true}): the dirents, or a failure
Readdir(p) ==
    LET d == Len(p) - 2 IN
    IF /\ Len(p) >= 2
       /\ p[Len(p)] = COMMANDS
       /\ Stat(SubSeq(p, 1, Len(p) - 1)) = "dir"
       /\ cmds[d] = "listable"
    THEN [ok |-> TRUE,
          dirents |-> [i \in 1..Len(listing) |->
                         [name |-> listing[i].name, type |-> listing[i].type]]]
    ELSE [ok |-> FALSE, dirents |-> <<>>]

\* fs.readFile(p, 'utf-8') of an entry of the listed directory
ReadFile(p) ==
    LET hit == {i \in 1..Len(listing) : listing[i].name = p[Len(p)]} IN
    IF hit # {} /\ \A i \in hit : listing[i].type # "dir" /\ listing[i].readable
    THEN [ok |-> TRUE, content |-> listing[CHOOSE i \in hit : TRUE].text]
    ELSE [ok |-> FALSE, content |-> ""]

\* toml.parse on the documents the model's files hold
TomlParse(text) ==
    CASE text = "description = 'Does foo'" ->
            [ok |-> TRUE, table |-> [description |-> [t |-> "string", v |-> "Does foo"]]]
      [] text = "description = 'Does bar'" ->
            [ok |-> TRUE, table |-> [description |-> [t |-> "string", v |-> "Does bar"]]]
      [] text = "description = ''" ->
            [ok |-> TRUE, table |-> [description |-> [t |-> "string", v |-> ""]]]
      [] text = "description = 5" ->
            [ok |-> TRUE, table |-> [description |-> [t |-> "integer", v |-> "5"]]]
      [] text = "prompt = 'hi'" ->
            [ok |-> TRUE, table |-> [prompt |-> [t |-> "string", v |-> "hi"]]]
      [] OTHER ->
            [ok |-> FALSE, table |-> [error |-> [t |-> "string", v |-> "TomlError"]]]

Name(stem, ext) == stem \o ext

\* the directory entries the model draws from: one per case of the loop body
Universe ==
    { [name |-> Name(<<"f">>, TOML), type |-> "file", readable |-> TRUE,
       text |-> "description = 'Does foo'"],
      [name |-> TOML, type |-> "file", readable |-> TRUE,
       text |-> "description = 'Does bar'"],
      [name |-> Name(<<"x">>, TOML), type |-> "file", readable |-> TRUE,
       text |-> "description = "],
      [name |-> Name(<<"n">>, TOML), type |-> "file", readable |-> TRUE,
       text |-> "prompt = 'hi'"],
      [name |-> Name(<<"l">>, TOML), type |-> "file", readable |-> FALSE,
       text |-> "description = 'Does foo'"],
      [name |-> Name(<<"i">>, TOML), type |-> "file", readable |-> TRUE,
       text |-> "description = 5"],
      [name |-> Name(<<"e">>, TOML), type |-> "file", readable |-> TRUE,
       text |-> "description = ''"],
      [name |-> Name(<<"d">>, TOML), type |-> "dir", readable |-> FALSE,
       text |-> ""],
      [name |-> Name(<<"s">>, TOML), type |-> "symlink", readable |-> TRUE,
       text |-> "description = 'Does foo'"],
      [name |-> <<"t", ".", "t", "x", "t">>, type |-> "file", readable |-> TRUE,
       text |-> "description = 'Does foo'"] }

\* two of them, for the filesystems that vary the directories instead
PlainUniverse ==
    { e \in Universe : e.name \in {Name(<<"f">>, TOML), Name(<<"x">>, TOML)} }

\* the sequences of at most n distinct entries of U
RECURSIVE ListingsOf(_, _)
ListingsOf(U, n) ==
    IF n = 0 THEN {<<>>}
    ELSE LET shorter == ListingsOf(U, n - 1) IN
         shorter \cup
         { Append(l, e) : l \in {s \in shorter : Len(s) = n - 1},
                          e \in U }

Distinct(l) == \A i, j \in 1..Len(l) : i # j => l[i].name # l[j].name

Listings(U) == {l \in ListingsOf(U, MaxFiles) : Distinct(l)}

------------------------------------------------------------------------------
\* The loop conditions, the validation and the catch blocks of the source

\* `let currentDir = process.cwd()`
StartDirParent == Dirname(cwd)
StartDir == cwd

\* `while (currentDir !== root)`
WalkContinues(dir, rootDir) == dir # rootDir

\* `catch (_error) { }` around fs.stat
StatCatch == "swallow"

\* `catch (error) { }` around fs.readdir and the loop
ReaddirCatchRethrow == "rethrow"
ReaddirCatch == "swallow"

\* `catch (error) { console.error(...) }` around the read and parse of one file
FileCatchSilent == "swallow"
FileCatch == "log"

\* `for (const dirent of dirents)`: the signal is a parameter of loadCommands
\* and is never read
HasNextUnlessAborted(i, entries, signal) == i <= Len(entries) /\ ~signal
HasNext(i, entries, signal) == i <= Len(entries)

\* `dirent.isFile() && dirent.name.endsWith('.toml')`
IsCommandFile(dirent) == dirent.type = "file" /\ EndsWith(dirent.name, TOML)

\* `typeof description !== 'string' || !description`, negated
IsValidDescriptionAnyString(table) ==
    "description" \in DOMAIN table /\ table.description.t = "string"
IsValidDescription(table) ==
    /\ "description" \in DOMAIN table
    /\ table.description.t = "string"
    /\ table.description.v # ""

\* `promptCommands.push(newPromptCommand)`
PushFront(list, x) == <<x>> \o list
Push(list, x) == Append(list, x)

\* the SlashCommand literal; `captured` is what its two closures close over
NewPromptCommand(commandName, description) ==
    [name |-> commandName,
     description |-> description,
     kind |-> "CUSTOM",
     autoExecute |-> TRUE,
     captured |-> [commandName |-> commandName]]

\* the body of `action`
ActionBodyEchoArgs(captured, context, args) ==
    [type |-> "submit_prompt", content |-> args]
ActionBody(captured, context, args) ==
    [type |-> "submit_prompt", content |-> captured.commandName]

\* the body of `completion`
CompletionBody(captured) == <<>>

------------------------------------------------------------------------------
\* Initial states

Configs == {"null", "config"}
Contexts == {"ctx1", "ctx2"}
ArgStrings == {<<>>, <<"f">>, <<"z">>}

NoCall == [cmd |-> 0, what |-> "none", context |-> "", args |-> <<>>,
           type |-> "", content |-> <<>>, suggestions |-> <<>>]
NoRun == [config |-> "null", aborted |-> FALSE, returned |-> <<>>,
          diagnostics |-> <<>>, readLog |-> <<>>]

InitProgram ==
    /\ config = "null"
    /\ aborted = FALSE
    /\ pc = "idle"
    /\ currentDir = NullPath
    /\ root = NullPath
    /\ geminiDir = NullPath
    /\ commandsDir = NullPath
    /\ dirents = <<>>
    /\ idx = 0
    /\ fullPath = NullPath
    /\ promptCommands = <<>>
    /\ returned = <<>>
    /\ diagnostics = <<>>
    /\ statLog = <<>>
    /\ readdirLog = <<>>
    /\ readLog = <<>>
    /\ run = 1
    /\ prev = NoRun
    /\ lastCall = NoCall
    /\ prevCall = NoCall

\* every chain of ancestors down to depth `deepest`, with a plain commands
\* directory
InitChainsTo(deepest) ==
    /\ \E n \in 0..deepest :
        /\ cwd = Chain(n)
        /\ gem \in [0..n -> GemKinds]
        /\ cmds \in [0..n -> CmdKinds]
    /\ \A d \in DOMAIN gem : gem[d] # "dir" => cmds[d] = "missing"
    /\ listing \in Listings(PlainUniverse)
    /\ (\A d \in DOMAIN cmds : cmds[d] # "listable") => listing = <<>>
    /\ InitProgram

\* every commands directory, in a `.gemini` of the working directory /a
InitFiles ==
    /\ cwd = Chain(1)
    /\ gem = [d \in 0..1 |-> IF d = 1 THEN "dir" ELSE "absent"]
    /\ cmds = [d \in 0..1 |-> IF d = 1 THEN "listable" ELSE "missing"]
    /\ listing \in Listings(Universe)
    /\ InitProgram

InitChains == InitChainsTo(MaxDepth)

Init == InitChains \/ InitFiles

\* the working directory is the root or a child of it
InitShallow == InitChainsTo(1) \/ InitFiles

------------------------------------------------------------------------------
\* findGeminiDir

\* loadCommands is called: findGeminiDir starts at the working directory
LoadCommands ==
    /\ pc = "idle"
    /\ currentDir' = StartDir
    /\ root' = ParseRoot(StartDir)
    /\ pc' = "walk"
    /\ UNCHANGED <<fsVars, config, aborted, geminiDir, commandsDir, dirents, idx,
                   fullPath, promptCommands, returned, logs, run, prev,
                   lastCall, prevCall>>

\* one pass of the while loop
WalkStep ==
    /\ pc = "walk"
    /\ WalkContinues(currentDir, root)
    /\ LET candidate == Join(currentDir, GEMINI)
           st == Stat(candidate)
       IN /\ statLog' = Append(statLog, candidate)
          /\ IF st = "throws" /\ StatCatch # "swallow"
             THEN /\ pc' = "threw"
                  /\ UNCHANGED <<currentDir, geminiDir>>
             ELSE IF st # "throws" /\ IsDirectory(st)
             THEN /\ geminiDir' = candidate
                  /\ pc' = "resolved"
                  /\ UNCHANGED currentDir
             ELSE /\ currentDir' = Dirname(currentDir)
                  /\ UNCHANGED <<pc, geminiDir>>
    /\ UNCHANGED <<fsVars, config, aborted, root, commandsDir, dirents, idx,
                   fullPath, promptCommands, returned, diagnostics, readdirLog,
                   readLog, run, prev, lastCall, prevCall>>

\* the loop condition fails: `return null`
WalkExit ==
    /\ pc = "walk"
    /\ ~WalkContinues(currentDir, root)
    /\ geminiDir' = NullPath
    /\ pc' = "resolved"
    /\ UNCHANGED <<fsVars, config, aborted, currentDir, root, commandsDir,
                   dirents, idx, fullPath, promptCommands, returned, logs, run,
                   prev, lastCall, prevCall>>

------------------------------------------------------------------------------
\* loadCommands

\* `if (!geminiDir) return []`
ReturnNotFound ==
    /\ pc = "resolved"
    /\ geminiDir = NullPath
    /\ returned' = <<>>
    /\ pc' = "done"
    /\ UNCHANGED <<fsVars, config, aborted, currentDir, root, geminiDir,
                   commandsDir, dirents, idx, fullPath, promptCommands, logs,
                   run, prev, lastCall, prevCall>>

\* `fs.readdir(commandsDir, { withFileTypes: true })`
ListCommands ==
    /\ pc = "resolved"
    /\ geminiDir # NullPath
    /\ LET dir == Join(geminiDir, COMMANDS)
           r == Readdir(dir)
       IN /\ commandsDir' = dir
          /\ promptCommands' = <<>>
          /\ readdirLog' = Append(readdirLog, dir)
          /\ IF r.ok
             THEN /\ dirents' = r.dirents
                  /\ idx' = 1
                  /\ pc' = "loop"
             ELSE /\ pc' = IF ReaddirCatch = "swallow" THEN "return" ELSE "threw"
                  /\ UNCHANGED <<dirents, idx>>
    /\ UNCHANGED <<fsVars, config, aborted, currentDir, root, geminiDir,
                   fullPath, returned, diagnostics, statLog, readLog, run, prev,
                   lastCall, prevCall>>

\* an entry that is no `.toml` regular file
SkipEntry ==
    /\ pc = "loop"
    /\ HasNext(idx, dirents, aborted)
    /\ ~IsCommandFile(dirents[idx])
    /\ idx' = idx + 1
    /\ UNCHANGED <<fsVars, config, aborted, pc, currentDir, root, geminiDir,
                   commandsDir, dirents, fullPath, promptCommands, returned,
                   logs, run, prev, lastCall, prevCall>>

\* `await fs.readFile(fullPath, 'utf-8')` is issued
BeginRead ==
    /\ pc = "loop"
    /\ HasNext(idx, dirents, aborted)
    /\ IsCommandFile(dirents[idx])
    /\ fullPath' = Join(commandsDir, dirents[idx].name)
    /\ readLog' = Append(readLog, [op |-> "begin", i |-> idx])
    /\ pc' = "reading"
    /\ UNCHANGED <<fsVars, config, aborted, currentDir, root, geminiDir,
                   commandsDir, dirents, idx, promptCommands, returned,
                   diagnostics, statLog, readdirLog, run, prev, lastCall,
                   prevCall>>

\* the read settles; parse, validate, push or log, and go on to the next entry
FinishFile ==
    /\ pc = "reading"
    /\ LET r == ReadFile(fullPath)
           parsed == TomlParse(r.content)
           commandName == Basename(dirents[idx].name, TOML)
           failed == ~r.ok \/ ~parsed.ok
       IN /\ IF failed /\ FileCatch = "log"
             THEN diagnostics' =
                    Append(diagnostics,
                           [path |-> fullPath,
                            error |-> IF ~r.ok THEN "read" ELSE "parse"])
             ELSE UNCHANGED diagnostics
          /\ IF ~failed /\ IsValidDescription(parsed.table)
             THEN promptCommands' =
                    Push(promptCommands,
                         NewPromptCommand(commandName, parsed.table.description.v))
             ELSE UNCHANGED promptCommands
    /\ readLog' = Append(readLog, [op |-> "end", i |-> idx])
    /\ idx' = idx + 1
    /\ pc' = "loop"
    /\ UNCHANGED <<fsVars, config, aborted, currentDir, root, geminiDir,
                   commandsDir, dirents, fullPath, returned, statLog,
                   readdirLog, run, prev, lastCall, prevCall>>

\* the for loop is over
EndLoop ==
    /\ pc = "loop"
    /\ ~HasNext(idx, dirents, aborted)
    /\ pc' = "return"
    /\ UNCHANGED <<fsVars, config, aborted, currentDir, root, geminiDir,
                   commandsDir, dirents, idx, fullPath, promptCommands,
                   returned, logs, run, prev, lastCall, prevCall>>

\* `return promptCommands`
ReturnCommands ==
    /\ pc = "return"
    /\ returned' = promptCommands
    /\ pc' = "done"
    /\ UNCHANGED <<fsVars, config, aborted, currentDir, root, geminiDir,
                   commandsDir, dirents, idx, fullPath, promptCommands, logs,
                   run, prev, lastCall, prevCall>>

Next ==
    \/ LoadCommands
    \/ WalkStep
    \/ WalkExit
    \/ ReturnNotFound
    \/ ListCommands
    \/ SkipEntry
    \/ BeginRead
    \/ FinishFile
    \/ EndLoop
    \/ ReturnCommands

Spec == Init /\ [][Next]_vars

------------------------------------------------------------------------------
\* The environment: the signal's owner, a second loader, the command registry

\* the owner of the AbortSignal aborts it, before the call or during the scan
Abort ==
    /\ pc # "done"
    /\ ~aborted
    /\ aborted' = TRUE
    /\ UNCHANGED <<fsVars, config, locals, logs, run, prev, lastCall, prevCall>>

\* `new CustomCommandLoader(c).loadCommands(s)` once more, on the same filesystem
Reload ==
    /\ pc = "done"
    /\ run = 1
    /\ prev' = [config |-> config, aborted |-> aborted, returned |-> returned,
                diagnostics |-> diagnostics, readLog |-> readLog]
    /\ run' = 2
    /\ config' \in Configs
    /\ aborted' \in BOOLEAN
    /\ pc' = "idle"
    /\ currentDir' = NullPath
    /\ root' = NullPath
    /\ geminiDir' = NullPath
    /\ commandsDir' = NullPath
    /\ dirents' = <<>>
    /\ idx' = 0
    /\ fullPath' = NullPath
    /\ promptCommands' = <<>>
    /\ returned' = <<>>
    /\ diagnostics' = <<>>
    /\ statLog' = <<>>
    /\ readdirLog' = <<>>
    /\ readLog' = <<>>
    /\ UNCHANGED <<fsVars, lastCall, prevCall>>

NextSignal == Next \/ Abort \/ Reload

SpecSignal == Init /\ [][NextSignal]_vars

\* the registry calls `action(context, args)` of a returned command
InvokeAction ==
    /\ pc = "done"
    /\ prevCall.what = "none"
    /\ \E k \in 1..Len(returned), context \in Contexts, args \in ArgStrings :
        LET r == ActionBody(returned[k].captured, context, args) IN
        /\ lastCall.what # "none" => lastCall.cmd = k /\ lastCall.what = "action"
        /\ lastCall' = [cmd |-> k, what |-> "action", context |-> context,
                        args |-> args, type |-> r.type, content |-> r.content,
                        suggestions |-> <<>>]
    /\ prevCall' = lastCall
    /\ UNCHANGED <<fsVars, config, aborted, locals, logs, run, prev>>

\* the registry calls `completion(context, partialArg)` of a returned command
InvokeCompletion ==
    /\ pc = "done"
    /\ prevCall.what = "none"
    /\ \E k \in 1..Len(returned), context \in Contexts, args \in ArgStrings :
        /\ lastCall.what # "none" => lastCall.cmd = k /\ lastCall.what = "completion"
        /\ lastCall' = [cmd |-> k, what |-> "completion", context |-> context,
                        args |-> args, type |-> "", content |-> <<>>,
                        suggestions |-> CompletionBody(returned[k].captured)]
    /\ prevCall' = lastCall
    /\ UNCHANGED <<fsVars, config, aborted, locals, logs, run, prev>>

NextInvoke == Next \/ InvokeAction \/ InvokeCompletion

SpecInvoke == InitShallow /\ [][NextInvoke]_vars

\* the event loop runs every continuation whose promise has settled
FairSpec == Init /\ [][Next]_vars /\ WF_vars(Next)

------------------------------------------------------------------------------
\* What the filesystem holds, stated without the loader

\* the ancestor of the working directory at depth d; Ancestor(0) is the root
Ancestor(d) == SubSeq(cwd, 1, d)

MarkerDepths == {d \in 0..Len(cwd) : gem[d] = "dir"}
HasMarker == MarkerDepths # {}
NearestDepth == CHOOSE d \in MarkerDepths : \A e \in MarkerDepths : e <= d
NearestMarker ==
    IF HasMarker THEN Append(Ancestor(NearestDepth), GEMINI) ELSE NullPath

ResolverReturned == pc \in {"resolved", "loop", "reading", "return", "done"}

RootInspections ==
    Cardinality({i \in 1..Len(statLog) : statLog[i] = <<GEMINI>>})

\* the entries of `<marker>/commands`, for the marker the resolver returned
MarkerEntries ==
    IF geminiDir # NullPath /\ cmds[Len(geminiDir) - 1] = "listable"
    THEN listing
    ELSE <<>>

HasTomlSuffix(name) ==
    \E n \in 0..Len(name) : name = SubSeq(name, 1, n) \o TOML

IsTomlFile(e) == e.type = "file" /\ HasTomlSuffix(e.name)

FailingFile(e) ==
    IsTomlFile(e) /\ (~e.readable \/ ~TomlParse(e.text).ok)

Qualifies(e) ==
    /\ IsTomlFile(e)
    /\ e.readable
    /\ TomlParse(e.text).ok
    /\ LET t == TomlParse(e.text).table IN
       /\ "description" \in DOMAIN t
       /\ t.description.t = "string"
       /\ t.description.v # ""

Describes(c, e) ==
    /\ c.name \o TOML = e.name
    /\ c.description = TomlParse(e.text).table.description.v
    /\ c.kind = "CUSTOM"
    /\ c.autoExecute = TRUE

------------------------------------------------------------------------------
\* C1: once findGeminiDir has returned, its result is `<d>/.gemini` for the
\* nearest directory d on the ancestor chain of the working directory (the
\* working directory and the root included) whose `.gemini` is a directory,
\* and null exactly when the chain has none.
C1_NearestMarker == ResolverReturned => geminiDir = NearestMarker

\* C7: when no directory below the root holds a `.gemini` directory, the
\* root's `.gemini` has been inspected exactly once when the resolver returns,
\* and a `.gemini` directory in the root is the result.
C7_RootInspectedOnce ==
    (ResolverReturned /\ \A d \in 1..Len(cwd) : gem[d] # "dir") =>
        /\ RootInspections = 1
        /\ gem[0] = "dir" => geminiDir = <<GEMINI>>

\* C8: the resolver always returns; it stats only `.gemini` of directories of
\* the ancestor chain, none of them twice, and no stat failure makes it throw.
C8_ResolverTerminates ==
    /\ <>ResolverReturned
    /\ [](/\ pc # "threw"
          /\ \A i \in 1..Len(statLog) :
                \E d \in 0..Len(cwd) : statLog[i] = Append(Ancestor(d), GEMINI)
          /\ \A i, j \in 1..Len(statLog) : i # j => statLog[i] # statLog[j])

C8_Witness ==
    /\ ResolverReturned
    /\ geminiDir = NullPath
    /\ Len(cwd) >= 2
    /\ Len(statLog) = Len(cwd)
    /\ \E d \in 1..Len(cwd) : gem[d] = "denied"

C4_EmptyWithoutCommandsDir ==
    (pc = "done" /\ (~HasMarker \/ cmds[NearestDepth] # "listable")) =>
        /\ returned = <<>>
        /\ readLog = <<>>
        /\ \A i \in 1..Len(readdirLog) :
              HasMarker /\ readdirLog[i] = Append(NearestMarker, COMMANDS)

C4_Witness ==
    /\ pc = "done"
    /\ HasMarker
    /\ NearestDepth >= 2
    /\ cmds[NearestDepth] = "unreadable"
    /\ readdirLog = <<Append(NearestMarker, COMMANDS)>>
    /\ \E d \in 1..(NearestDepth - 1) : gem[d] = "dir" /\ cmds[d] = "listable"
    /\ \E i \in 1..Len(listing) : Qualifies(listing[i])

\* C2: the returned list holds exactly one descriptor per entry of
\* `<marker>/commands` that is a `.toml` regular file which reads, parses and
\* has a non-empty string description, with that file's stem as name, its
\* description, kind CUSTOM and autoExecute true, and nothing else; what a
\* file contributes depends on that file alone.
C2_OneDescriptorPerValidFile ==
    (pc = "done" /\ geminiDir # NullPath) =>
        LET files == MarkerEntries IN
        /\ \A i \in 1..Len(files) :
              Qualifies(files[i]) =>
                Cardinality({k \in 1..Len(returned) :
                               Describes(returned[k], files[i])}) = 1
        /\ \A k \in 1..Len(returned) :
              \E i \in 1..Len(files) :
                 Qualifies(files[i]) /\ Describes(returned[k], files[i])
        /\ Len(returned) =
              Cardinality({i \in 1..Len(files) : Qualifies(files[i])})

C2_Witness ==
    /\ pc = "done"
    /\ Len(MarkerEntries) = 2
    /\ FailingFile(MarkerEntries[1])
    /\ Qualifies(MarkerEntries[2])
    /\ Len(returned) = 1

\* C5: the descriptors come in the order of their files in the listing, and
\* the reads are strictly one after the other: every read ends before the
\* next begins, in increasing listing position.
C5_ListingOrderSequential ==
    /\ \A j \in 1..Len(readLog) :
          IF j % 2 = 1
          THEN /\ readLog[j].op = "begin"
               /\ j > 2 => readLog[j].i > readLog[j - 1].i
          ELSE /\ readLog[j].op = "end"
               /\ readLog[j].i = readLog[j - 1].i
    /\ pc = "done" =>
          \A k1, k2 \in 1..Len(returned) :
             k1 < k2 =>
               \E i1, i2 \in 1..Len(dirents) :
                  /\ i1 < i2
                  /\ dirents[i1].name = returned[k1].name \o TOML
                  /\ dirents[i2].name = returned[k2].name \o TOML

C5_Witness ==
    /\ pc = "done"
    /\ Len(returned) = 2
    /\ Len(readLog) = 4

\* C6: `action` of a returned descriptor answers submit_prompt with the
\* descriptor's own name as content, `completion` answers the empty list, and
\* two calls of the same behaviour agree whatever context and arguments.
C6_ActionEchoesName ==
    /\ lastCall.what = "action" =>
          /\ lastCall.type = "submit_prompt"
          /\ lastCall.content = returned[lastCall.cmd].name
    /\ lastCall.what = "completion" => lastCall.suggestions = <<>>
    /\ prevCall.what # "none" =>
          /\ prevCall.cmd = lastCall.cmd /\ prevCall.what = lastCall.what
          /\ prevCall.type = lastCall.type
          /\ prevCall.content = lastCall.content
          /\ prevCall.suggestions = lastCall.suggestions

C6_Witness ==
    /\ prevCall.what = "action"
    /\ lastCall.what = "action"
    /\ prevCall.context # lastCall.context
    /\ prevCall.args # lastCall.args
    /\ lastCall.args # <<>>
    /\ lastCall.args # returned[lastCall.cmd].name

\* C9: every diagnostic names a `.toml` regular file of the listed directory
\* whose read or parse failed, no file is named twice, and at the end every
\* such file has its diagnostic; nothing else is ever logged.
C9_DiagnosticPerFailedFile ==
    /\ \A j \in 1..Len(diagnostics) :
          \E i \in 1..Len(MarkerEntries) :
             /\ FailingFile(MarkerEntries[i])
             /\ diagnostics[j].path =
                   Append(Append(geminiDir, COMMANDS), MarkerEntries[i].name)
    /\ \A j1, j2 \in 1..Len(diagnostics) :
          j1 # j2 => diagnostics[j1].path # diagnostics[j2].path
    /\ pc = "done" =>
          Len(diagnostics) =
             Cardinality({i \in 1..Len(MarkerEntries) :
                            FailingFile(MarkerEntries[i])})

C9_Witness ==
    /\ pc = "done"
    /\ Len(diagnostics) = 1
    /\ Len(MarkerEntries) = 2
    /\ \E i \in 1..2 :
          /\ IsTomlFile(MarkerEntries[i])
          /\ ~FailingFile(MarkerEntries[i])
          /\ ~Qualifies(MarkerEntries[i])

\* C10: a second run on the same filesystem, with another configuration and
\* another signal, reads the same files, logs the same diagnostics and returns
\* the same list as the first; aborted or not, a run reads every `.toml`
\* regular file of the listed directory.
C10_SignalAndConfigInert ==
    /\ (run = 2 /\ pc = "done") =>
          /\ returned = prev.returned
          /\ diagnostics = prev.diagnostics
          /\ readLog = prev.readLog
    /\ pc = "done" =>
          Len(readLog) =
             2 * Cardinality({i \in 1..Len(MarkerEntries) :
                                IsTomlFile(MarkerEntries[i])})

C10_Witness ==
    /\ run = 2
    /\ pc = "done"
    /\ prev.aborted # aborted
    /\ prev.config # config
    /\ returned # <<>>
    /\ diagnostics # <<>>

====
